---- MODULE Spec2Model ----
(***************************************************************************)
(* Model of src/core.ts (class Core): the module registry, the process     *)
(* bootstrap, the GET /info endpoint, the route introspector getEndPoints  *)
(* and the auth hooks / interception policies installed by initAuth.       *)
(*                                                                         *)
(* Strings are sequences of tokens.  "/" , "." and every regular           *)
(* expression metacharacter are tokens of their own; a run of word         *)
(* characters the code never looks inside ("api", "widgets") is one token. *)
(***************************************************************************)
EXTENDS Integers, Sequences, FiniteSets, TLC

\* ------------------------------------------------------------------ bounds

\* longest module list handed to the constructor
MaxModules == 2
\* most layers registered on one dispatcher in the introspection model
MaxLayers == 2
\* most user documents the document store holds in the auth model
MaxUsers == 2

\* ------------------------------------------------------------ JS strings

\* String.prototype.split("/")
RECURSIVE SplitAcc(_, _, _)
SplitAcc(s, cur, out) ==
  IF s = <<>> THEN Append(out, cur)
  ELSE IF Head(s) = "/" THEN SplitAcc(Tail(s), <<>>, Append(out, cur))
  ELSE SplitAcc(Tail(s), Append(cur, Head(s)), out)

StrSplit(s) == SplitAcc(s, <<>>, <<>>)

\* Array.prototype.join(sep) on an array of strings
RECURSIVE StrJoin(_, _)
StrJoin(segs, sep) ==
  IF segs = <<>> THEN <<>>
  ELSE IF Len(segs) = 1 THEN segs[1]
  ELSE segs[1] \o sep \o StrJoin(Tail(segs), sep)

\* Array.prototype.filter(Boolean) on an array of strings: "" is falsy
RECURSIVE FilterBoolean(_)
FilterBoolean(segs) ==
  IF segs = <<>> THEN <<>>
  ELSE IF Head(segs) = <<>> THEN FilterBoolean(Tail(segs))
  ELSE <<Head(segs)>> \o FilterBoolean(Tail(segs))

StartsWith(s, pat) == Len(pat) <= Len(s) /\ SubSeq(s, 1, Len(pat)) = pat

\* String.prototype.replace(pat, rep) with a string pattern: first occurrence
RECURSIVE ReplaceFirst(_, _, _)
ReplaceFirst(s, pat, rep) ==
  IF Len(s) < Len(pat) THEN s
  ELSE IF StartsWith(s, pat) THEN rep \o SubSeq(s, Len(pat) + 1, Len(s))
  ELSE <<Head(s)>> \o ReplaceFirst(Tail(s), pat, rep)

\* String.prototype.toUpperCase() on the method names express uses
ToUpperCase(m) ==
  CASE m = "get" -> "GET"
    [] m = "post" -> "POST"
    [] m = "delete" -> "DELETE"
    [] OTHER -> m

\* ------------------------------------------------------------- path.join

\* normalizeString of node's path.posix: "." and "" segments dropped,
\* ".." pops (or is kept above the root of a relative path)
RECURSIVE NormalizeSegs(_, _, _)
NormalizeSegs(segs, acc, allowAboveRoot) ==
  IF segs = <<>> THEN acc
  ELSE LET s == Head(segs) rest == Tail(segs) IN
    IF s = <<>> \/ s = <<".">> THEN NormalizeSegs(rest, acc, allowAboveRoot)
    ELSE IF s = <<".", ".">> THEN
      IF acc # <<>> /\ acc[Len(acc)] # <<".", ".">>
        THEN NormalizeSegs(rest, SubSeq(acc, 1, Len(acc) - 1), allowAboveRoot)
      ELSE IF allowAboveRoot THEN NormalizeSegs(rest, Append(acc, s), allowAboveRoot)
      ELSE NormalizeSegs(rest, acc, allowAboveRoot)
    ELSE NormalizeSegs(rest, Append(acc, s), allowAboveRoot)

\* path.posix.normalize
Normalize(p) ==
  IF p = <<>> THEN <<".">>
  ELSE LET isAbsolute == Head(p) = "/"
           trailing == p[Len(p)] = "/"
           body == StrJoin(NormalizeSegs(StrSplit(p), <<>>, ~isAbsolute), <<"/">>)
       IN IF body = <<>>
            THEN (IF isAbsolute THEN <<"/">>
                  ELSE IF trailing THEN <<".", "/">> ELSE <<".">>)
          ELSE (IF isAbsolute THEN <<"/">> ELSE <<>>) \o body
               \o (IF trailing THEN <<"/">> ELSE <<>>)

\* path.posix.join(a, b): empty arguments are skipped
PathJoin(a, b) ==
  IF a = <<>> /\ b = <<>> THEN <<".">>
  ELSE IF a = <<>> THEN Normalize(b)
  ELSE IF b = <<>> THEN Normalize(a)
  ELSE Normalize(a \o <<"/">> \o b)

\* --------------------------------------------- express: compiling a path

\* the characters the decoder's pattern names: . * + ? ^ $ { } ( ) | [ ] \ /
Special ==
  {".", "*", "+", "?", "^", "$", "{", "}", "(", ")", "|", "[", "]", "\\", "/"}

\* \w+ : a run of word characters is one token
IsWord(tok) == tok \notin Special \cup {":", "=", ",", " ", "-", "<complex:", ">"}

\* a JavaScript value the introspector may find where it expects a path
Undefined == [t |-> "undefined"]
JsString(s) == [t |-> "string", v |-> s]
JsArray(a) == [t |-> "array", v |-> a]
JsRegExp(src, flags, fast) ==
  [t |-> "regexp", src |-> src, flags |-> flags, fast_slash |-> fast]

\* path-to-regexp 0.1.x, .replace(/([\/\.])/g, '\\$1')
RECURSIVE EscapeSlashDot(_)
EscapeSlashDot(s) ==
  IF s = <<>> THEN <<>>
  ELSE IF Head(s) \in {"/", "."} THEN <<"\\", Head(s)>> \o EscapeSlashDot(Tail(s))
  ELSE <<Head(s)>> \o EscapeSlashDot(Tail(s))

\* the text path-to-regexp puts in place of "<slash><format>:key"
ParamGroup(slash, format) ==
  slash \o <<"(", "?", ":">> \o format \o <<"(", "[", "^", "\\", "/">> \o format
        \o <<"]", "+", "?", ")", ")">>

\* path-to-regexp 0.1.x, .replace(/(\\\/)?(\\\.)?:(\w+)(\(.*?\))?(\*)?(\?)?/g, ...)
\* for keys with no custom capture, star or optional mark
RECURSIVE ReplaceParams(_)
ReplaceParams(s) ==
  LET sl == <<"\\", "/">>
      fm == <<"\\", ".">>
      key(r) == Len(r) >= 2 /\ r[1] = ":" /\ IsWord(r[2])
      after(n) == SubSeq(s, n + 1, Len(s))
  IN IF s = <<>> THEN <<>>
     ELSE IF StartsWith(s, sl \o fm) /\ key(after(4))
       THEN ParamGroup(sl, fm) \o ReplaceParams(after(6))
     ELSE IF StartsWith(s, sl) /\ key(after(2))
       THEN ParamGroup(sl, <<>>) \o ReplaceParams(after(4))
     ELSE IF StartsWith(s, fm) /\ key(after(2))
       THEN ParamGroup(<<>>, fm) \o ReplaceParams(after(4))
     ELSE IF key(s) THEN ParamGroup(<<>>, <<>>) \o ReplaceParams(after(2))
     ELSE <<Head(s)>> \o ReplaceParams(Tail(s))

Lookahead == <<"(", "?", "=", "\\", "/", "|", "$", ")">>

\* path-to-regexp 0.1.x as express 4 calls it (strict: false, sensitive: false),
\* for paths without "(" and "*"
pathRegexpSource(path, end) ==
  LET open == <<"^">> \o path
                \o (IF path # <<>> /\ path[Len(path)] = "/" THEN <<"?">>
                    ELSE <<"/", "?">>)
      body == ReplaceParams(EscapeSlashDot(open))
  IN body \o (IF end THEN <<"$">>
              ELSE IF body[Len(body)] = "/" THEN <<>> ELSE Lookahead)

\* express Layer(path, opts, fn): this.regexp and this.regexp.fast_slash
LayerRegexp(path, end) ==
  JsRegExp(pathRegexpSource(path, end), <<"i">>, path = <<"/">> /\ ~end)

\* a layer of the routing tree; NoMethod is the undefined layer.method
NoMethod == ""
NoRoute == [t |-> "undefined"]
NoStack == [t |-> "undefined"]

\* Route.prototype[method](handler): Layer('/', {}, handler), layer.method = method
MethodLayer(method) ==
  [route |-> NoRoute, name |-> "handler", handle |-> NoStack,
   regexp |-> LayerRegexp(<<"/">>, TRUE), method |-> method]

\* Route.prototype.all(handler): layer.method stays undefined
AllLayer ==
  [route |-> NoRoute, name |-> "handler", handle |-> NoStack,
   regexp |-> LayerRegexp(<<"/">>, TRUE), method |-> NoMethod]

\* router.route(path): layer.route = new Route(path), with handlers of the
\* given methods, in order; path is the value the caller passed
RouteLayerFor(path, regexp, methods) ==
  [route |-> [t |-> "route", path |-> path,
              stack |-> [i \in 1..Len(methods) |->
                           IF methods[i] = "all" THEN AllLayer
                           ELSE MethodLayer(methods[i])]],
   name |-> "bound dispatch", handle |-> NoStack,
   regexp |-> regexp, method |-> NoMethod]

\* router.get(path, ...) and its like with a string path
RouteLayer(path, methods) ==
  RouteLayerFor(JsString(path), LayerRegexp(path, TRUE), methods)

\* router.use(path, fn) for a sub-router fn (fn.name is "router")
RouterLayer(path, stack) ==
  [route |-> NoRoute, name |-> "router", handle |-> [t |-> "array", v |-> stack],
   regexp |-> LayerRegexp(path, FALSE), method |-> NoMethod]

\* router.use(fn) for a plain middleware (express.json(), cors(), query, init)
MiddlewareLayer(name) ==
  [route |-> NoRoute, name |-> name, handle |-> NoStack,
   regexp |-> LayerRegexp(<<"/">>, FALSE), method |-> NoMethod]

\* --------------------------------------------------- the route introspector

\* RegExp.prototype.toString / Array.prototype.toString
toString(thing) ==
  IF thing.t = "regexp" THEN <<"/">> \o thing.src \o <<"/">> \o thing.flags
  ELSE IF thing.t = "array" THEN StrJoin(thing.v, <<",">>)
  ELSE thing.v

\* the longest prefix of s that ((?:\\[special]|[^special])*) can consume
RECURSIVE LiteralPrefix(_)
LiteralPrefix(s) ==
  IF s = <<>> THEN <<>>
  ELSE IF Head(s) = "\\" THEN
    (IF Len(s) >= 2 /\ s[2] \in Special
       THEN <<s[1], s[2]>> \o LiteralPrefix(SubSeq(s, 3, Len(s)))
     ELSE <<>>)
  ELSE IF Head(s) \in Special THEN <<>>
  ELSE <<Head(s)>> \o LiteralPrefix(Tail(s))

\* .match(/^\/\^((?:\\[.*+?^${}()|[\]\\\/]|[^.*+?^${}()|[\]\\\/])*)\$\//):
\* the captured group, or no match
MatchLiteral(s) ==
  IF ~StartsWith(s, <<"/", "^">>) THEN [matched |-> FALSE, group |-> <<>>]
  ELSE LET rest == SubSeq(s, 3, Len(s))
           g == LiteralPrefix(rest)
       IN IF StartsWith(SubSeq(rest, Len(g) + 1, Len(rest)), <<"$", "/">>)
            THEN [matched |-> TRUE, group |-> g]
          ELSE [matched |-> FALSE, group |-> <<>>]

\* .replace(/\\(.)/g, "$1")
RECURSIVE Unescape(_)
Unescape(s) ==
  IF s = <<>> THEN <<>>
  ELSE IF Head(s) = "\\" /\ Len(s) >= 2
    THEN <<s[2]>> \o Unescape(SubSeq(s, 3, Len(s)))
  ELSE <<Head(s)>> \o Unescape(Tail(s))

\* "<complex:" + thing.toString() + ">"
ComplexMarker(thing) == <<"<complex:">> \o toString(thing) \o <<">">>

\* getEndPoints.split: the segments concat() will append, or a TypeError
\* (thing.fast_slash read on undefined)
split(thing) ==
  IF thing.t = "string" THEN [threw |-> FALSE, v |-> StrSplit(thing.v)]
  ELSE IF thing.t = "undefined" THEN [threw |-> TRUE, v |-> <<>>]
  ELSE IF thing.t = "regexp" /\ thing.fast_slash
    THEN [threw |-> FALSE, v |-> << <<>> >>]
  ELSE LET m == MatchLiteral(
                  ReplaceFirst(ReplaceFirst(toString(thing), <<"\\", "/", "?">>, <<>>),
                               Lookahead, <<"$">>))
       IN IF m.matched THEN [threw |-> FALSE, v |-> StrSplit(Unescape(m.group))]
          ELSE [threw |-> FALSE, v |-> <<ComplexMarker(thing)>>]

\* `${layer.method.toUpperCase()} /${path.filter(Boolean).join("/")}`
EndPoint(method, path) ==
  <<ToUpperCase(method), " ", "/">> \o StrJoin(FilterBoolean(path), <<"/">>)

\* Set.prototype.add on the insertion-ordered set of routes
ArrayPush(routes, e) == Append(routes, e)
SetAdd(routes, e) ==
  IF \E i \in 1..Len(routes) : routes[i] = e THEN routes ELSE Append(routes, e)

\* getEndPoints.print over one layer, and stack.forEach(print.bind(null, path))
RECURSIVE print(_, _, _), printEach(_, _, _)
print(path, layer, acc) ==
  IF layer.route.t # "undefined" THEN
    LET s == split(layer.route.path)
    IN IF s.threw THEN [threw |-> TRUE, routes |-> acc.routes]
       ELSE printEach(path \o s.v, layer.route.stack, acc)
  ELSE IF layer.name = "router" /\ layer.handle.t # "undefined" THEN
    LET s == split(layer.regexp)
    IN IF s.threw THEN [threw |-> TRUE, routes |-> acc.routes]
       ELSE printEach(path \o s.v, layer.handle.v, acc)
  ELSE IF layer.method # NoMethod THEN
    LET s == split(layer.regexp)
    IN IF s.threw THEN [threw |-> TRUE, routes |-> acc.routes]
       ELSE [threw |-> FALSE,
             routes |-> SetAdd(acc.routes, EndPoint(layer.method, path \o s.v))]
  ELSE acc

printEach(path, stack, acc) ==
  IF stack = <<>> \/ acc.threw THEN acc
  ELSE printEach(path, Tail(stack), print(path, Head(stack), acc))

\* Core.getEndPoints on the dispatcher's stack: Array.from(routes), or a throw
getEndPoints(stack) == printEach(<<>>, stack, [threw |-> FALSE, routes |-> <<>>])

\* ------------------------------------------------------------------ state

VARIABLES
  \* Core and its process (bootstrap model)
  options,     \* CoreOptions: the module factories' descriptors and the admin key
  pc,          \* where the constructor, or the process after it, stands
  idx,         \* the forEach position in options.modules
  modules,     \* this.modules
  paths,       \* this.paths
  stack,       \* this.app._router.stack
  mounts,      \* the path argument of every app.use(..., module.router)
  started,     \* the collaborators in the order the constructor started them
  completed,   \* the collaborators whose start has completed
  log,         \* the messages handed to this.logger
  resp,        \* the last response of GET /info
  \* a dispatcher under introspection (introspection model)
  tree,        \* the dispatcher's layer stack
  decls,       \* what was registered on it, as the caller wrote it
  literalOnly, \* every registration so far used a literal string path
  result,      \* what the last getEndPoints() call gave
  \* the auth bridge (auth model)
  users,       \* the document store's user collection
  tokenSet,    \* the key/value store's token set
  ledger,      \* per token, the last storeToken / deleteToken that returned [false]
  lastCall     \* the last hook or interceptor call and its outcome

bootVars == <<options, pc, idx, modules, paths, stack, mounts, started, completed,
              log, resp>>
introVars == <<tree, decls, literalOnly, result>>
authVars == <<users, tokenSet, ledger, lastCall>>
vars == <<bootVars, introVars, authVars>>

\* ------------------------------------------------------ bootstrap: inputs

\* the routers the module factories return, built through express's own API
ListRouter == <<RouteLayer(<<"/", "list">>, <<"get">>)>>
ItemRouter ==
  <<RouteLayer(<<"/", "list">>, <<"get", "get">>),
    RouteLayer(<<"/", ":", "id">>, <<"get", "delete">>)>>

\* auth.Router of the auth library, mounted at /auth
AuthRouter ==
  <<RouteLayer(<<"/", "login">>, <<"post">>),
    RouteLayer(<<"/", "register">>, <<"post">>)>>

\* what the module factories of options.modules return
Descriptors ==
  { [name |-> "widgets", path |-> <<"widgets">>, router |-> ListRouter],
    [name |-> "widgets", path |-> <<"staff">>, router |-> ItemRouter],
    [name |-> "gadgets", path |-> <<"widgets">>, router |-> ItemRouter],
    [name |-> "gizmos", path |-> <<"/", "widgets">>, router |-> ListRouter],
    [name |-> "sneak", path |-> <<".", ".", "/", "auth">>, router |-> ListRouter] }

ModuleLists == UNION { [1..n -> Descriptors] : n \in 0..MaxModules }

AdminKeys == { <<"s3cret">>, <<"other">> }

\* req.query.adminKey: absent, a string, or an array (?adminKey=a&adminKey=b)
QueryValues ==
  {Undefined, JsArray(<< <<"s3cret">> >>)} \cup { JsString(k) : k \in AdminKeys }

\* a !== b for the values above
LooseNotEqual(a, b) ==
  ~ (\/ (a.t = b.t /\ a.t = "string" /\ a.v = b.v)
     \/ (a.t = b.t /\ a.t = "undefined")
     \/ (a.t = "array" /\ b.t = "string" /\ StrJoin(a.v, <<",">>) = b.v))
StrictNotEqual(a, b) ==
  ~ (/\ a.t = b.t
     /\ a.t # "array"
     /\ (a.t = "string" => a.v = b.v))

HttpMsg == "Internal-Staff-Portal REST backend on Port"
SocketMsg == "Internal-Staff-Portal Socket.IO backend on Port"
RedisMsg == "Connected to Redis Database!"
MongoMsg == "Connected to Mongo Database!"

Info(msg) == [level |-> "info", msg |-> msg]

NoResponse == [status |-> 0]

\* Array.prototype.includes
Includes(arr, x) == \E i \in 1..Len(arr) : arr[i] = x

\* the state the other two models leave untouched
IntroIdle ==
  /\ tree = <<>> /\ decls = <<>> /\ literalOnly = TRUE /\ result = [t |-> "none"]
AuthIdle ==
  /\ users = {} /\ tokenSet = {} /\ ledger = <<>> /\ lastCall = [hook |-> "none"]
BootIdle ==
  /\ options = [modules |-> <<>>, adminKey |-> <<>>]
  /\ pc = "idle" /\ idx = 1 /\ modules = <<>> /\ paths = <<>> /\ stack = <<>>
  /\ mounts = <<>> /\ started = <<>> /\ completed = {} /\ log = <<>>
  /\ resp = NoResponse

\* --------------------------------------------------- bootstrap: operations

\* new Core(options), up to the first init call
Init ==
  /\ options \in [modules : ModuleLists, adminKey : AdminKeys]
  /\ pc = "initExpress"
  /\ idx = 1
  /\ modules = <<>>
  /\ paths = <<>>
  /\ stack = <<>>
  /\ mounts = <<>>
  /\ started = <<>>
  /\ completed = {}
  /\ log = <<>>
  /\ resp = NoResponse
  /\ IntroIdle
  /\ AuthIdle

\* initExpress: express(), json and cors middleware, listen(port, cb), GET /info
initExpress ==
  /\ pc = "initExpress"
  /\ stack' = <<MiddlewareLayer("query"), MiddlewareLayer("expressInit"),
                MiddlewareLayer("jsonParser"), MiddlewareLayer("corsMiddleware"),
                RouteLayer(<<"/", "info">>, <<"get">>)>>
  /\ started' = Append(started, "http")
  /\ pc' = "initRedis"
  /\ UNCHANGED <<options, idx, modules, paths, mounts, completed, log, resp>>
  /\ UNCHANGED <<introVars, authVars>>

\* initRedis: new RedisClient(options), redis.connect(cb)
initRedis ==
  /\ pc = "initRedis"
  /\ started' = Append(started, "redis")
  /\ pc' = "initSocketIO"
  /\ UNCHANGED <<options, idx, modules, paths, stack, mounts, completed, log, resp>>
  /\ UNCHANGED <<introVars, authVars>>

\* initSocketIO: new SocketServer(options), io.listen(port), then the log call
initSocketIO ==
  /\ pc = "initSocketIO"
  /\ started' = Append(started, "socketio")
  /\ log' = Append(log, Info(SocketMsg))
  /\ pc' = "initMongo"
  /\ UNCHANGED <<options, idx, modules, paths, stack, mounts, completed, resp>>
  /\ UNCHANGED <<introVars, authVars>>

\* initMongo: connect(uri, cb)
initMongoLogsAtOnce ==
  /\ pc = "initMongo"
  /\ started' = Append(started, "mongo")
  /\ log' = Append(log, Info(MongoMsg))
  /\ pc' = "initAuth"
  /\ UNCHANGED <<options, idx, modules, paths, stack, mounts, completed, resp>>
  /\ UNCHANGED <<introVars, authVars>>
initMongo ==
  /\ pc = "initMongo"
  /\ started' = Append(started, "mongo")
  /\ pc' = "initAuth"
  /\ UNCHANGED <<options, idx, modules, paths, stack, mounts, completed, log, resp>>
  /\ UNCHANGED <<introVars, authVars>>

\* initAuth(options) and this.app.use("/auth", this.auth.Router)
initAuth ==
  /\ pc = "initAuth"
  /\ stack' = Append(stack, RouterLayer(<<"/", "auth">>, AuthRouter))
  /\ pc' = "modules"
  /\ UNCHANGED <<options, idx, modules, paths, mounts, started, completed, log, resp>>
  /\ UNCHANGED <<introVars, authVars>>

\* the duplicate test of addModule
collidesAnd(module, ps, ms) == Includes(ps, module.path) /\ Includes(ms, module.name)
collides(module, ps, ms) == Includes(ps, module.path) \/ Includes(ms, module.name)

\* addModule on the next factory of options.modules: throw, or register and mount
addModule ==
  /\ pc = "modules"
  /\ idx <= Len(options.modules)
  /\ LET module == options.modules[idx] IN
       IF collides(module, paths, modules)
         THEN /\ pc' = "thrown"
              /\ UNCHANGED <<idx, modules, paths, stack, mounts>>
         ELSE /\ paths' = Append(paths, module.path)
              /\ modules' = Append(modules, module.name)
              /\ stack' = Append(stack, RouterLayer(PathJoin(<<"/", "api">>, module.path),
                                                    module.router))
              /\ mounts' = Append(mounts, PathJoin(<<"/", "api">>, module.path))
              /\ idx' = idx + 1
              /\ pc' = pc
  /\ UNCHANGED <<options, started, completed, log, resp>>
  /\ UNCHANGED <<introVars, authVars>>

\* the forEach is through: the constructor returns
constructorReturns ==
  /\ pc = "modules"
  /\ idx > Len(options.modules)
  /\ pc' = "returned"
  /\ UNCHANGED <<options, idx, modules, paths, stack, mounts, started, completed,
                 log, resp>>
  /\ UNCHANGED <<introVars, authVars>>

\* the Error of addModule leaves the constructor: nobody catches it and node
\* ends the process, or the code that called new Core() catches it and the
\* process lives on with the listener initExpress started
errorLeavesConstructor ==
  /\ pc = "thrown"
  /\ pc' \in {"exited", "caught"}
  /\ UNCHANGED <<options, idx, modules, paths, stack, mounts, started, completed,
                 log, resp>>
  /\ UNCHANGED <<introVars, authVars>>

\* the event loop runs callbacks only once the constructor's call has ended
EventLoopRuns == pc \in {"returned", "caught"}

\* a collaborator's completion callback: its start completes and it logs
completes(who, msg) ==
  /\ EventLoopRuns
  /\ who \in {started[i] : i \in 1..Len(started)}
  /\ who \notin completed
  /\ completed' = completed \cup {who}
  /\ log' = Append(log, Info(msg))
  /\ UNCHANGED <<options, pc, idx, modules, paths, stack, mounts, started, resp>>
  /\ UNCHANGED <<introVars, authVars>>

\* app.listen's callback
httpListening == completes("http", HttpMsg)

\* redis.connect's callback
redisConnected == completes("redis", RedisMsg)

\* mongoose connect's callback
mongoConnected == completes("mongo", MongoMsg)

\* the socket.io server's port is bound; nothing is logged then
socketListening ==
  /\ EventLoopRuns
  /\ "socketio" \in {started[i] : i \in 1..Len(started)}
  /\ "socketio" \notin completed
  /\ completed' = completed \cup {"socketio"}
  /\ UNCHANGED <<options, pc, idx, modules, paths, stack, mounts, started, log, resp>>
  /\ UNCHANGED <<introVars, authVars>>

\* the GET /info handler's answer to a request whose query holds adminKey = q
infoResponse(q) ==
  IF StrictNotEqual(q, JsString(options.adminKey))
    THEN [status |-> 403, query |-> q,
          err |-> "Please provide the \"adminKey\" as a query parameter"]
  ELSE LET e == getEndPoints(stack)
       IN IF e.threw THEN [status |-> 500, query |-> q]
          ELSE [status |-> 200, query |-> q, modules |-> modules,
                endpoints |-> e.routes]

\* GET /info arrives on the listening server
getInfo ==
  /\ EventLoopRuns
  /\ "http" \in completed
  /\ \E q \in QueryValues : resp' = infoResponse(q)
  /\ UNCHANGED <<options, pc, idx, modules, paths, stack, mounts, started,
                 completed, log>>
  /\ UNCHANGED <<introVars, authVars>>

Next ==
  \/ initExpress
  \/ initRedis
  \/ initSocketIO
  \/ initMongo
  \/ initAuth
  \/ addModule
  \/ constructorReturns
  \/ errorLeavesConstructor
  \/ httpListening
  \/ redisConnected
  \/ mongoConnected
  \/ socketListening
  \/ getInfo

Spec == Init /\ [][Next]_vars

\* ------------------------------------------------ bootstrap: the claims

NoDuplicates(arr) == \A i, j \in 1..Len(arr) : i # j => arr[i] # arr[j]
IsPrefix(a, b) == Len(a) <= Len(b) /\ SubSeq(b, 1, Len(a)) = a
Logged(msg) == Includes(log, Info(msg))
Raised == pc \in {"thrown", "caught", "exited"}

\* C1: the registered names are pairwise distinct and so are the registered
\* paths; the registry holds exactly the descriptors of the addModule calls
\* made so far that did not throw, and a call throws, registering nothing,
\* exactly on a descriptor whose name or path is already registered.
C1_UniqueNamesAndPaths ==
  /\ NoDuplicates(modules)
  /\ NoDuplicates(paths)
  /\ modules = [i \in 1..(idx - 1) |-> options.modules[i].name]
  /\ paths = [i \in 1..(idx - 1) |-> options.modules[i].path]
  /\ Raised =>
       \E i \in 1..(idx - 1) :
         \/ options.modules[i].name = options.modules[idx].name
         \/ options.modules[i].path = options.modules[idx].path

\* C1's case: a second descriptor reusing only the name of the first has thrown
C1_Witness ==
  /\ pc = "thrown"
  /\ Len(modules) = 1
  /\ options.modules[2].name = modules[1]
  /\ options.modules[2].path # paths[1]

\* C2: a request is handled only when every module of the list is registered
\* and no registration has raised.
C2_NoRequestUnlessFullyRegistered ==
  resp # NoResponse => (pc = "returned" /\ Len(modules) = Len(options.modules))

\* C6: GET /info answers 403 with the fixed error body, and neither list,
\* unless the adminKey query parameter is the configured secret; then it
\* answers 200 with this.modules and the introspector's endpoint list.
C6_InfoNeedsAdminKey ==
  resp # NoResponse =>
    IF resp.query.t = "string" /\ resp.query.v = options.adminKey
      THEN /\ resp.status = 200
           /\ resp.modules = modules
           /\ resp.endpoints = getEndPoints(stack).routes
           /\ Includes(resp.endpoints, <<"GET", " ", "/", "info">>)
      ELSE /\ resp.status = 403
           /\ resp.err = "Please provide the \"adminKey\" as a query parameter"
           /\ DOMAIN resp = {"status", "query", "err"}

\* C6's case: the right key was given and a registered module is disclosed
C6_Witness == resp.status = 200 /\ Len(resp.modules) >= 1

\* C8 as amended: the constructor starts the HTTP listener, the key/value
\* connection, the real-time listener and the document-store connection, in
\* that order; the HTTP, key/value and document-store messages are logged by
\* the completion callbacks, the real-time message as soon as listen() is called.
C8_StartOrderAndLogs ==
  /\ IsPrefix(started, <<"http", "redis", "socketio", "mongo">>)
  /\ Logged(HttpMsg) <=> "http" \in completed
  /\ Logged(RedisMsg) <=> "redis" \in completed
  /\ Logged(MongoMsg) <=> "mongo" \in completed
  /\ Logged(SocketMsg) <=> Includes(started, "socketio")

\* C8's case: everything is started, the real-time message is logged and the
\* real-time listener has not completed, the document store has
C8_Witness ==
  /\ Len(started) = 4
  /\ Logged(SocketMsg) /\ "socketio" \notin completed
  /\ Logged(MongoMsg)

\* C8 as stated: HTTP, key/value, document store, real-time, each message
\* logged on (not before) its collaborator's completion.
C8_SpecOrderAndLogs ==
  /\ IsPrefix(started, <<"http", "redis", "mongo", "socketio">>)
  /\ Logged(HttpMsg) => "http" \in completed
  /\ Logged(RedisMsg) => "redis" \in completed
  /\ Logged(MongoMsg) => "mongo" \in completed
  /\ Logged(SocketMsg) => "socketio" \in completed

\* C10: every registered module is mounted at a prefix of its own below /api.
C10_OwnPrefixUnderApi ==
  /\ NoDuplicates(mounts)
  /\ \A i \in 1..Len(mounts) :
       Len(mounts[i]) > 3 /\ SubSeq(mounts[i], 1, 3) = <<"/", "api", "/">>

\* ------------------------------------------------ introspection: inputs

\* what a caller registers: a route (path, methods of its handlers) or a
\* sub-router mounted at a path, itself a list of registrations
Route(path, methods) == [k |-> "route", path |-> path, methods |-> methods]
Use(path, sub) == [k |-> "use", path |-> path, sub |-> sub]

\* the layers express builds for a list of registrations
RECURSIVE Build(_)
Build(items) ==
  IF items = <<>> THEN <<>>
  ELSE LET it == Head(items) IN
    <<IF it.k = "route" THEN RouteLayer(it.path, it.methods)
      ELSE RouterLayer(it.path, Build(it.sub))>> \o Build(Tail(items))

LiteralPaths ==
  { <<"/">>, <<"/", "list">>, <<"/", "api", "/", "widgets">>, <<"/", "x", ".", "y", "/">> }

MethodLists == { <<"get">>, <<"get", "get">>, <<"post", "get">>, <<"all">> }

SubRouters ==
  { <<Route(<<"/", "list">>, <<"get", "get">>)>>,
    <<Use(<<"/", "sub">>, <<Route(<<"/">>, <<"delete">>)>>),
      Route(<<"/", "list">>, <<"post">>)>> }

\* a mount path with a parameter: its compiled expression is not a literal
ParamPaths == { <<"/", ":", "id">> }

\* a route registered with an array of paths: path-to-regexp joins the sources
ArrayRoute(p1, p2) ==
  RouteLayerFor(JsArray(<<p1, p2>>),
                JsRegExp(<<"(", "?", ":">> \o pathRegexpSource(p1, TRUE) \o <<"|">>
                           \o pathRegexpSource(p2, TRUE) \o <<")">>, <<"i">>, FALSE),
                <<"get">>)

\* layers with no path expression where print reads one: router.get(undefined, h)
\* keeps route.path undefined; a hand-built router may hold a handler layer
\* with no regexp
MalformedLayers ==
  { RouteLayerFor(Undefined, LayerRegexp(<<"undefined">>, TRUE), <<"get">>),
    [route |-> NoRoute, name |-> "router",
     handle |-> [t |-> "array",
                 v |-> <<[route |-> NoRoute, name |-> "handler", handle |-> NoStack,
                          regexp |-> Undefined, method |-> "get"]>>],
     regexp |-> LayerRegexp(<<"/", "odd">>, FALSE), method |-> NoMethod] }

\* ---------------------------------------------- introspection: operations

\* a fresh express() dispatcher after lazyrouter()
InitIntro ==
  /\ tree = <<MiddlewareLayer("query"), MiddlewareLayer("expressInit")>>
  /\ decls = <<>>
  /\ literalOnly = TRUE
  /\ result = [t |-> "none"]
  /\ BootIdle
  /\ AuthIdle

\* app.get / app.post / app.all (path, handlers...) with a literal path
appRoute ==
  /\ Len(decls) < MaxLayers
  /\ \E p \in LiteralPaths, ms \in MethodLists :
       /\ tree' = Append(tree, RouteLayer(p, ms))
       /\ decls' = Append(decls, Route(p, ms))
  /\ result' = [t |-> "none"]
  /\ UNCHANGED <<literalOnly, bootVars, authVars>>

\* app.use(path, router) with a literal path
appUse ==
  /\ Len(decls) < MaxLayers
  /\ \E p \in LiteralPaths, r \in SubRouters :
       /\ tree' = Append(tree, RouterLayer(p, Build(r)))
       /\ decls' = Append(decls, Use(p, r))
  /\ result' = [t |-> "none"]
  /\ UNCHANGED <<literalOnly, bootVars, authVars>>

\* app.use("/:id", router), app.get(["/", "/list"], h): not literal paths
appUsePattern ==
  /\ Len(decls) < MaxLayers
  /\ \/ \E p \in ParamPaths, r \in SubRouters :
          /\ tree' = Append(tree, RouterLayer(p, Build(r)))
          /\ decls' = Append(decls, Use(p, r))
     \/ /\ tree' = Append(tree, ArrayRoute(<<"/">>, <<"/", "list">>))
        /\ decls' = Append(decls, [k |-> "array"])
  /\ literalOnly' = FALSE
  /\ result' = [t |-> "none"]
  /\ UNCHANGED <<bootVars, authVars>>

\* a layer without a path expression enters the tree
appUseMalformed ==
  /\ Len(decls) < MaxLayers
  /\ \E l \in MalformedLayers : tree' = Append(tree, l)
  /\ decls' = Append(decls, [k |-> "malformed"])
  /\ literalOnly' = FALSE
  /\ result' = [t |-> "none"]
  /\ UNCHANGED <<bootVars, authVars>>

\* this.getEndPoints()
introspect ==
  /\ result.t = "none"
  /\ LET e == getEndPoints(tree) IN
       result' = IF e.threw THEN [t |-> "threw"] ELSE [t |-> "ok", v |-> e.routes]
  /\ UNCHANGED <<tree, decls, literalOnly, bootVars, authVars>>

NextIntro ==
  \/ appRoute
  \/ appUse
  \/ appUsePattern
  \/ appUseMalformed
  \/ introspect

SpecIntro == InitIntro /\ [][NextIntro]_vars

\* -------------------------------------------- introspection: the claims

\* the non-empty pieces of a path between its slashes
RECURSIVE Pieces(_, _)
Pieces(p, cur) ==
  IF p = <<>> THEN (IF cur = <<>> THEN <<>> ELSE <<cur>>)
  ELSE IF Head(p) = "/" THEN (IF cur = <<>> THEN <<>> ELSE <<cur>>) \o Pieces(Tail(p), <<>>)
  ELSE Pieces(Tail(p), Append(cur, Head(p)))

MethodName == [get |-> "GET", post |-> "POST", delete |-> "DELETE"]

\* 'METHOD /joined-path' of every terminal handler among the registrations
RECURSIVE Expected(_, _)
Expected(items, prefix) ==
  IF items = <<>> THEN {}
  ELSE LET it == Head(items)
           at == prefix \o <<"/">> \o it.path
       IN (IF it.k = "route"
             THEN { <<MethodName[it.methods[i]], " ", "/">>
                      \o StrJoin(Pieces(at, <<>>), <<"/">>) :
                    i \in { j \in 1..Len(it.methods) : it.methods[j] # "all" } }
           ELSE Expected(it.sub, at))
          \cup Expected(Tail(items), prefix)

\* C7: on a tree of literal-path routes and literal-path mounts getEndPoints
\* returns the 'METHOD /joined-path' strings of the registered terminal
\* handlers, all of them, nothing else, each one once.
C7_LiteralTreeExact ==
  (literalOnly /\ result.t # "none") =>
    /\ result.t = "ok"
    /\ NoDuplicates(result.v)
    /\ { result.v[i] : i \in 1..Len(result.v) } = Expected(decls, <<>>)

\* C7's case: a router whose one route has two GET handlers, mounted at
\* /api/widgets, is listed as the single string GET /api/widgets/list
C7_Witness ==
  /\ decls = <<Use(<<"/", "api", "/", "widgets">>,
                   <<Route(<<"/", "list">>, <<"get", "get">>)>>)>>
  /\ result = [t |-> "ok",
               v |-> << <<"GET", " ", "/", "api", "/", "widgets", "/", "list">> >>]

\* C9: getEndPoints never raises, whatever the layer tree.
C9_NeverRaises == result.t # "threw"

\* ----------------------------------------------------------- auth: inputs

Emails == {"ann@corp", "bob@corp"}
Usernames == {"ann", "bob"}
Tokens == {"t1", "t2"}
UserIds == 1..(MaxUsers + 1)

Null == [t |-> "null"]
JsBool(b) == [t |-> "boolean", b |-> b]

\* a document of the user collection
UserDoc(id, email, username, active) ==
  [t |-> "doc", _id |-> id, email |-> email, username |-> username,
   hashedPassword |-> "hash", active |-> active]

\* the collection as the process may find it at start-up
InitialUsers ==
  { UserDoc(1, "ann@corp", "ann", TRUE), UserDoc(2, "bob@corp", "bob", FALSE) }

\* what a hook or interceptor returns: [err] or [err, value]
Tuple1(err) == [len |-> 1, err |-> err, val |-> [t |-> "none"]]
Tuple2(err, val) == [len |-> 2, err |-> err, val |-> val]

\* how a call ended: its promise resolved to a tuple, or rejected
Resolved(tuple, logged) == [settled |-> "resolved", tuple |-> tuple, logged |-> logged]
Rejected == [settled |-> "rejected", tuple |-> [len |-> 0], logged |-> FALSE]

\* what the backend call inside a hook did: threw, or answered
Threw == [threw |-> TRUE]
Answer(v) == [threw |-> FALSE, v |-> v]

\* UserModel.findOne({field: value}) / findById(value): a matching document, or null
Find(field, value) ==
  IF \E u \in users : u[field] = value
    THEN { u \in users : u[field] = value } ELSE {Null}

\* ------------------------------------------------------- auth: operations

\* the IUserData built from a found document
userData(user) ==
  IF user.t = "null" THEN Null
  ELSE [t |-> "userData", email |-> user.email,
        hashedPassword |-> user.hashedPassword, id |-> user._id,
        username |-> user.username]

\* the bodies of the hooks and interceptors, given what the backend call did
getUserByMailHook(backend) ==
  IF backend.threw THEN Resolved(Tuple2(TRUE, Null), TRUE)
  ELSE Resolved(Tuple2(FALSE, userData(backend.v)), FALSE)

getUserByNameHook(backend) ==
  IF backend.threw THEN Resolved(Tuple2(TRUE, Null), TRUE)
  ELSE Resolved(Tuple2(FALSE, userData(backend.v)), FALSE)

storeUserHook(backend) ==
  IF backend.threw THEN Resolved(Tuple1(TRUE), TRUE)
  ELSE Resolved(Tuple1(FALSE), FALSE)

\* Boolean(included) on the 0 / 1 that sismember answers
checkTokenHookNegated(backend) ==
  IF backend.threw THEN Resolved(Tuple2(TRUE, Null), TRUE)
  ELSE Resolved(Tuple2(FALSE, JsBool(backend.v = 0)), FALSE)
checkTokenHook(backend) ==
  IF backend.threw THEN Resolved(Tuple2(TRUE, Null), TRUE)
  ELSE Resolved(Tuple2(FALSE, JsBool(backend.v # 0)), FALSE)

deleteTokenHook(backend) ==
  IF backend.threw THEN Resolved(Tuple1(TRUE), TRUE)
  ELSE Resolved(Tuple1(FALSE), FALSE)

storeTokenHook(backend) ==
  IF backend.threw THEN Resolved(Tuple1(TRUE), TRUE)
  ELSE Resolved(Tuple1(FALSE), FALSE)

\* auth.intercept("register", () => [true])
registerInterceptor == Resolved(Tuple1(TRUE), FALSE)

\* auth.intercept("login", ...): the await is in no try block
loginInterceptorIgnoresActive(backend) ==
  IF backend.threw THEN Rejected
  ELSE IF backend.v.t = "null" THEN Resolved(Tuple1(TRUE), FALSE)
  ELSE Resolved(Tuple1(FALSE), FALSE)
loginInterceptor(backend) ==
  IF backend.threw THEN Rejected
  ELSE IF backend.v.t = "null" THEN Resolved(Tuple1(TRUE), FALSE)
  ELSE IF ~backend.v.active THEN Resolved(Tuple1(TRUE), FALSE)
  ELSE Resolved(Tuple1(FALSE), FALSE)

Call(hook, arg, backend, outcome) ==
  [hook |-> hook, arg |-> arg, threw |-> backend.threw, settled |-> outcome.settled,
   tuple |-> outcome.tuple, logged |-> outcome.logged]

\* the auth bridge is installed; the document store holds what it holds, the
\* token set is empty
InitAuth ==
  /\ users \in SUBSET InitialUsers
  /\ tokenSet = {}
  /\ ledger = [t \in Tokens |-> "never"]
  /\ lastCall = [hook |-> "none"]
  /\ BootIdle
  /\ IntroIdle

getUserByMail ==
  /\ \E email \in Emails :
       \E backend \in {Threw} \cup { Answer(u) : u \in Find("email", email) } :
         lastCall' = Call("getUserByMail", email, backend, getUserByMailHook(backend))
  /\ UNCHANGED <<users, tokenSet, ledger, bootVars, introVars>>

getUserByName ==
  /\ \E username \in Usernames :
       \E backend \in {Threw}
                      \cup { Answer(u) : u \in Find("username", username) } :
         lastCall' = Call("getUserByName", username, backend, getUserByNameHook(backend))
  /\ UNCHANGED <<users, tokenSet, ledger, bootVars, introVars>>

\* UserModel.create: the schema, not this file, decides the new document's
\* id and its active flag
storeUser ==
  /\ \E email \in Emails, username \in Usernames :
       \/ /\ lastCall' = Call("storeUser", email, Threw, storeUserHook(Threw))
          /\ users' = users
       \/ /\ Cardinality(users) < MaxUsers
          /\ \E active \in BOOLEAN :
               LET id == CHOOSE i \in UserIds : \A u \in users : u._id # i
               IN users' = users \cup {UserDoc(id, email, username, active)}
          /\ lastCall' = Call("storeUser", email, Answer(Null), storeUserHook(Answer(Null)))
  /\ UNCHANGED <<tokenSet, ledger, bootVars, introVars>>

\* redisClient.sismember(tokenSetName, token)
checkToken ==
  /\ \E token \in Tokens :
       \E backend \in {Threw, Answer(IF token \in tokenSet THEN 1 ELSE 0)} :
         lastCall' = Call("checkToken", token, backend, checkTokenHook(backend))
  /\ UNCHANGED <<users, tokenSet, ledger, bootVars, introVars>>

\* redisClient.srem(tokenSetName, token); a command that throws changes nothing
deleteToken ==
  /\ \E token \in Tokens :
       \/ /\ lastCall' = Call("deleteToken", token, Threw, deleteTokenHook(Threw))
          /\ UNCHANGED <<tokenSet, ledger>>
       \/ /\ tokenSet' = tokenSet \ {token}
          /\ ledger' = [ledger EXCEPT ![token] = "deleted"]
          /\ lastCall' = Call("deleteToken", token, Answer(1), deleteTokenHook(Answer(1)))
  /\ UNCHANGED <<users, bootVars, introVars>>

\* redisClient.sadd(tokenSetName, token); a command that throws changes nothing
storeToken ==
  /\ \E token \in Tokens :
       \/ /\ lastCall' = Call("storeToken", token, Threw, storeTokenHook(Threw))
          /\ UNCHANGED <<tokenSet, ledger>>
       \/ /\ tokenSet' = tokenSet \cup {token}
          /\ ledger' = [ledger EXCEPT ![token] = "stored"]
          /\ lastCall' = Call("storeToken", token, Answer(1), storeTokenHook(Answer(1)))
  /\ UNCHANGED <<users, bootVars, introVars>>

\* the register interception policy
register ==
  /\ lastCall' = Call("register", "any", Answer(Null), registerInterceptor)
  /\ UNCHANGED <<users, tokenSet, ledger, bootVars, introVars>>

\* the login interception policy: UserModel.findById(id)
login ==
  /\ \E id \in UserIds :
       \E backend \in {Threw} \cup { Answer(u) : u \in Find("_id", id) } :
         lastCall' = Call("login", id, backend, loginInterceptor(backend))
  /\ UNCHANGED <<users, tokenSet, ledger, bootVars, introVars>>

NextAuth ==
  \/ getUserByMail
  \/ getUserByName
  \/ storeUser
  \/ checkToken
  \/ deleteToken
  \/ storeToken
  \/ register
  \/ login

SpecAuth == InitAuth /\ [][NextAuth]_vars

\* ------------------------------------------------------- auth: the claims

\* C3 as amended: a checkToken(t) whose key/value call answers returns
\* [false, true] if the last storeToken(t) or deleteToken(t) that returned
\* [false] was a storeToken, and [false, false] otherwise (never stored, or
\* deleted since); a checkToken(t) whose key/value call throws returns [true, null].
C3_CheckTokenFollowsLedger ==
  lastCall.hook = "checkToken" =>
    /\ lastCall.settled = "resolved"
    /\ lastCall.tuple =
         IF lastCall.threw THEN Tuple2(TRUE, Null)
         ELSE Tuple2(FALSE, JsBool(ledger[lastCall.arg] = "stored"))

\* C3's case: a token stored and then deleted is checked and found absent
C3_Witness ==
  /\ lastCall.hook = "checkToken"
  /\ ledger[lastCall.arg] = "deleted"
  /\ lastCall.tuple = Tuple2(FALSE, JsBool(FALSE))

\* C3 as stated: checkToken(t) returns [false, true] iff t was stored and not
\* yet deleted, and [false, false] after a deleteToken(t).
C3_CheckTokenIffStored ==
  lastCall.hook = "checkToken" =>
    /\ lastCall.tuple = Tuple2(FALSE, JsBool(TRUE)) <=> ledger[lastCall.arg] = "stored"
    /\ ledger[lastCall.arg] = "deleted" => lastCall.tuple = Tuple2(FALSE, JsBool(FALSE))

\* the failure tuple of each hook and interception policy
FailureTuple(hook) ==
  IF hook \in {"getUserByMail", "getUserByName", "checkToken"}
    THEN Tuple2(TRUE, Null) ELSE Tuple1(TRUE)

\* C4: a call whose backend call threw still resolves, to its failure tuple,
\* after logging the error; no call rejects.
C4_NoExceptionPastBridge ==
  lastCall.hook # "none" =>
    /\ lastCall.settled = "resolved"
    /\ lastCall.threw => (lastCall.logged /\ lastCall.tuple = FailureTuple(lastCall.hook))

\* C5: a login call whose lookup answers returns [true] when no document has
\* the id or the document's active flag is false, and [false] when the
\* document exists and is active; no login call returns [false] otherwise.
C5_LoginBlockedUnlessActive ==
  lastCall.hook = "login" =>
    LET active == \E u \in users : u._id = lastCall.arg /\ u.active
    IN /\ ~lastCall.threw =>
            lastCall.tuple = IF active THEN Tuple1(FALSE) ELSE Tuple1(TRUE)
       /\ lastCall.tuple = Tuple1(FALSE) => active

\* C5's case: the user exists, is inactive, and login is blocked
C5_Witness ==
  /\ lastCall.hook = "login"
  /\ \E u \in users : u._id = lastCall.arg /\ ~u.active
  /\ lastCall.tuple = Tuple1(TRUE)

====
